---- MODULE Spec2Model ----
(***************************************************************************)
(* parrot.py: an order-2 Markov chain over song lyrics.                    *)
(*                                                                         *)
(* A Python str is modelled as a sequence of one-character strings, so     *)
(* str.split, str.join and str.replace are computed character by           *)
(* character.  A token is such a sequence; a song of the corpus is one      *)
(* string that build_distribution splits on the space character.           *)
(***************************************************************************)
EXTENDS Integers, Sequences, FiniteSets, TLC

VARIABLES tracks, corpus, word_count, distribution, word1, word2, song, i,
          pc, result, trace

vars == <<tracks, corpus, word_count, distribution, word1, word2, song, i,
          pc, result, trace>>

----------------------------------------------------------------------------
(* Bounds of the model *)

MaxSongTokens == 4
MaxSongs == 2
MaxCount == 5
MaxTextLen == 6

----------------------------------------------------------------------------
(* Values *)

\* Python's None; "None" is not a character, so no token equals it
None == <<"None">>

SP == " "
NL == "\n"

\* the literal '(1409616144139)' of line 74, kept as one symbol of the alphabet
SENTINEL == <<"#">>

\* lyrics[ :-4 ]
LicenceLines == 4

Range(f) == {f[k] : k \in DOMAIN f}

----------------------------------------------------------------------------
(* str.split( sep ), sep.join( parts ), str.replace( old, new ) *)

RECURSIVE split(_, _)
split(s, c) ==
    IF s = <<>> THEN << <<>> >>
    ELSE LET r == split(Tail(s), c)
         IN  IF Head(s) = c THEN << <<>> >> \o r
             ELSE << <<Head(s)>> \o Head(r) >> \o Tail(r)

RECURSIVE join(_, _)
join(sep, parts) ==
    IF parts = <<>> THEN <<>>
    ELSE IF Len(parts) = 1 THEN parts[1]
    ELSE parts[1] \o sep \o join(sep, Tail(parts))

RECURSIVE replace(_, _, _)
replace(s, old, new) ==
    IF Len(s) < Len(old) THEN s
    ELSE IF SubSeq(s, 1, Len(old)) = old
         THEN new \o replace(SubSeq(s, Len(old) + 1, Len(s)), old, new)
         ELSE <<Head(s)>> \o replace(Tail(s), old, new)

----------------------------------------------------------------------------
(* get_lyrics_corpus: the body of the loop over the tracks *)

strip_licence(lines) ==
    IF lines[Len(lines)] = SENTINEL
    THEN SubSeq(lines, 1, Len(lines) - LicenceLines)
    ELSE lines

encode_lyrics(lyrics) ==
    join(<<NL, SP>>, strip_licence(split(replace(lyrics, <<NL, NL>>, <<NL>>), NL)))

get_lyrics_corpus(texts) == [k \in 1..Len(texts) |-> encode_lyrics(texts[k])]

----------------------------------------------------------------------------
(* build_distribution *)

EmptyDistribution == [k \in {} |-> <<>>]

record_front(dist, key, word) ==
    IF key \in DOMAIN dist
    THEN [dist EXCEPT ![key] = <<word>> \o @]
    ELSE dist @@ (key :> <<word>>)

record(dist, key, word) ==
    IF key \in DOMAIN dist
    THEN [dist EXCEPT ![key] = Append(@, word)]
    ELSE dist @@ (key :> <<word>>)

RECURSIVE song_loop(_, _, _, _)
song_loop(dist, prev_word1, prev_word2, rest) ==
    IF rest = <<>> THEN dist
    ELSE song_loop(record(dist, <<prev_word1, prev_word2>>, Head(rest)),
                   prev_word2, Head(rest), Tail(rest))

add_song_skip3(dist, words) ==
    IF Len(words) < 4 THEN dist
    ELSE song_loop(dist, words[1], words[2], SubSeq(words, 3, Len(words)))

add_song(dist, words) ==
    IF Len(words) < 3 THEN dist
    ELSE song_loop(dist, words[1], words[2], SubSeq(words, 3, Len(words)))

RECURSIVE corpus_loop(_, _)
corpus_loop(dist, songs) ==
    IF songs = <<>> THEN dist
    ELSE corpus_loop(add_song(dist, split(Head(songs), SP)), Tail(songs))

build_distribution(c) == corpus_loop(EmptyDistribution, c)

----------------------------------------------------------------------------
(* generate_song *)

word_pairs == DOMAIN distribution

range_len_full(n) == IF n > 0 THEN n ELSE 0

\* range( word_count - 1 )
range_len(n) == IF n - 1 > 0 THEN n - 1 ELSE 0

\* a restart that may also pick the last pair of a song
pending_any_pair ==
    IF word1 = None
    THEN UNION { { <<split(corpus[k], SP)[j], split(corpus[k], SP)[j + 1]>> :
                     j \in 1..(Len(split(corpus[k], SP)) - 1) } : k \in 1..Len(corpus) }
    ELSE {<<word1, word2>>}

\* the pairs ( word1, word2 ) can hold after lines 117-118
pending == IF word1 = None THEN word_pairs ELSE {<<word1, word2>>}

successors_any_key(dist, key) == UNION { Range(dist[k]) : k \in DOMAIN dist }

\* random.choice( distribution[ key ] )
successors(dist, key) == Range(dist[key])

flush_first(s, w1, w2) == Append(s, w1)

flush(s, w1, w2) == Append(s, w2)

decode_no_replace(s) == join(<<SP>>, s)

decode(s) == replace(join(<<SP>>, s), <<NL, SP>>, <<NL>>)

NoResult == [kind |-> "none", text |-> <<>>]

Build ==
    /\ pc = "start"
    /\ distribution' = build_distribution(corpus)
    /\ word1' = None
    /\ word2' = None
    /\ song' = <<>>
    /\ pc' = "loop"
    /\ UNCHANGED <<tracks, corpus, word_count, i, result, trace>>

\* one iteration whose pending pair has a recorded successor
LoopStep ==
    /\ pc = "loop"
    /\ i < range_len(word_count)
    /\ \E key \in pending :
         /\ key \in DOMAIN distribution
         /\ \E nxt \in successors(distribution, key) :
              /\ song' = Append(song, key[1])
              /\ word1' = key[2]
              /\ word2' = nxt
              /\ trace' = Append(trace, [restart |-> (word1 = None), pair |-> key,
                                         dead |-> FALSE, next |-> nxt])
    /\ i' = i + 1
    /\ UNCHANGED <<tracks, corpus, word_count, distribution, pc, result>>

\* a dead end that clears both pending tokens
LoopDeadEnd_clears ==
    /\ pc = "loop"
    /\ i < range_len(word_count)
    /\ \E key \in pending :
         /\ key \notin DOMAIN distribution
         /\ song' = Append(Append(song, key[1]), key[2])
         /\ word1' = None
         /\ word2' = None
         /\ trace' = Append(trace, [restart |-> (word1 = None), pair |-> key,
                                    dead |-> TRUE, next |-> None])
    /\ i' = i + 1
    /\ UNCHANGED <<tracks, corpus, word_count, distribution, pc, result>>

\* one iteration whose pending pair is not a key
LoopDeadEnd ==
    /\ pc = "loop"
    /\ i < range_len(word_count)
    /\ \E key \in pending :
         /\ key \notin DOMAIN distribution
         /\ song' = Append(Append(song, key[1]), key[2])
         /\ word1' = None
         /\ word2' = key[2]
         /\ trace' = Append(trace, [restart |-> (word1 = None), pair |-> key,
                                    dead |-> TRUE, next |-> None])
    /\ i' = i + 1
    /\ UNCHANGED <<tracks, corpus, word_count, distribution, pc, result>>

\* random.choice( [] ) raises IndexError
LoopIndexError ==
    /\ pc = "loop"
    /\ i < range_len(word_count)
    /\ word1 = None
    /\ word_pairs = {}
    /\ result' = [kind |-> "IndexError", text |-> <<>>]
    /\ pc' = "done"
    /\ UNCHANGED <<tracks, corpus, word_count, distribution, word1, word2,
                   song, i, trace>>

Flush ==
    /\ pc = "loop"
    /\ i >= range_len(word_count)
    /\ song' = flush(song, word1, word2)
    /\ pc' = "return"
    /\ UNCHANGED <<tracks, corpus, word_count, distribution, word1, word2,
                   i, result, trace>>

\* ' '.join( song ) raises TypeError when an item is not a str
Return ==
    /\ pc = "return"
    /\ result' = IF None \in Range(song)
                 THEN [kind |-> "TypeError", text |-> <<>>]
                 ELSE [kind |-> "ok", text |-> decode(song)]
    /\ pc' = "done"
    /\ UNCHANGED <<tracks, corpus, word_count, distribution, word1, word2,
                   song, i, trace>>

----------------------------------------------------------------------------
(* Inputs *)

Words == { <<"a">>, <<"b", NL>> }

Songs == { join(<<SP>>, ts) : ts \in UNION { [1..k -> Words] : k \in 1..MaxSongTokens } }

ScenarioA == << <<"a", SP, "b", SP, "c", SP, "d", SP, "e">> >>

ScenarioB == << <<"a", SP, "b", SP, "c">>, <<"a", SP, "b", SP, "d">> >>

Corpora == UNION { [1..k -> Songs] : k \in 0..MaxSongs } \cup {ScenarioA, ScenarioB}

Init ==
    /\ tracks = <<>>
    /\ corpus \in Corpora
    /\ word_count \in 1..MaxCount
    /\ distribution = EmptyDistribution
    /\ word1 = None
    /\ word2 = None
    /\ song = <<>>
    /\ i = 0
    /\ pc = "start"
    /\ result = NoResult
    /\ trace = <<>>

(* The text path: one fetched track is encoded by get_lyrics_corpus, split *)
(* into tokens as build_distribution splits it, and decoded by line 133.  *)

TextChars == {"a", SP, NL, "#"}

Texts == UNION { [1..k -> TextChars] : k \in 0..MaxTextLen }

InitText ==
    /\ tracks \in { <<t>> : t \in Texts }
    /\ corpus = <<>>
    /\ word_count = 1
    /\ distribution = EmptyDistribution
    /\ word1 = None
    /\ word2 = None
    /\ song = <<>>
    /\ i = 0
    /\ pc = "fetch"
    /\ result = NoResult
    /\ trace = <<>>

GetLyricsCorpus ==
    /\ pc = "fetch"
    /\ corpus' = get_lyrics_corpus(tracks)
    /\ pc' = "tokens"
    /\ UNCHANGED <<tracks, word_count, distribution, word1, word2, song, i,
                   result, trace>>

SplitSong ==
    /\ pc = "tokens"
    /\ song' = split(corpus[1], SP)
    /\ pc' = "return"
    /\ UNCHANGED <<tracks, corpus, word_count, distribution, word1, word2, i,
                   result, trace>>

NextText == GetLyricsCorpus \/ SplitSong \/ Return

SpecText == InitText /\ [][NextText]_vars

Next == Build \/ LoopStep \/ LoopDeadEnd \/ LoopIndexError \/ Flush \/ Return

Spec == Init /\ [][Next]_vars

----------------------------------------------------------------------------
(* Properties *)

\* the token sequence of song k, as build_distribution sees it
Tok(k) == split(corpus[k], SP)

CorpusTokens == UNION { Range(Tok(k)) : k \in 1..Len(corpus) }

DeadEnds == Cardinality({ k \in 1..Len(trace) : trace[k].dead })

Last(s) == s[Len(s)]

Built == pc \in {"loop", "return", "done"}

Flushed == pc \in {"return", "done"} /\ result.kind # "IndexError"

A == <<"a">>
B == <<"b">>
C == <<"c">>
D == <<"d">>
E == <<"e">>

\* C1: with a non-empty Distribution the loop runs exactly word_count - 1
\* times and the token sequence has length word_count + (number of dead
\* ends): each iteration adds one token, each dead end one more, and the
\* final flush one; the length is never below word_count.
C1_Length ==
    (Built /\ word_pairs # {}) =>
        /\ Len(trace) = i
        /\ pc = "loop" => Len(song) = i + DeadEnds
        /\ Flushed =>
             /\ i = word_count - 1
             /\ Len(song) = word_count + DeadEnds
             /\ Len(song) >= word_count

C1_Witness ==
    /\ pc = "done"
    /\ result.kind = "ok"
    /\ word_count = 5
    /\ DeadEnds = 2
    /\ Len(song) = 7

\* C2: with an empty Distribution generate_song fails with GenerationError
\* before the loop: nothing is sampled, nothing is appended to the output.
C2_Rejected ==
    (Built /\ word_pairs = {}) =>
        /\ song = <<>>
        /\ trace = <<>>
        /\ pc # "return"
        /\ pc = "done" => result.kind = "GenerationError"

\* the pairs of consecutive tokens of one song that a further token follows
ObservedPairs ==
    UNION { { <<Tok(k)[j], Tok(k)[j + 1]>> : j \in 1..(Len(Tok(k)) - 2) } :
              k \in 1..Len(corpus) }

LongSong(s) == Len(split(s, SP)) >= 3

\* C3: the keys of the Distribution are exactly the pairs of consecutive
\* tokens of one song that are followed by a further token of that song;
\* songs of fewer than 3 tokens contribute nothing, a corpus without a song
\* of 3 tokens gives an empty Distribution, and a non-empty corpus whose
\* songs all have at least 3 tokens gives a non-empty one.
C3_Keys ==
    Built =>
        /\ DOMAIN distribution = ObservedPairs
        /\ distribution = build_distribution(SelectSeq(corpus, LongSong))
        /\ (\A k \in 1..Len(corpus) : Len(Tok(k)) < 3) => DOMAIN distribution = {}
        /\ (corpus # <<>> /\ \A k \in 1..Len(corpus) : Len(Tok(k)) >= 3)
              => DOMAIN distribution # {}

C3_Witness ==
    /\ pc = "done"
    /\ Len(corpus) = 2
    /\ Len(Tok(1)) = 2
    /\ Len(Tok(2)) = 3
    /\ DOMAIN distribution = { <<Tok(2)[1], Tok(2)[2]>> }

\* the positions <<song, index>> of the corpus that start a key, in corpus order
RECURSIVE Positions(_)
Positions(k) ==
    IF k > Len(corpus) THEN <<>>
    ELSE [j \in 1..(IF Len(Tok(k)) > 2 THEN Len(Tok(k)) - 2 ELSE 0) |-> <<k, j>>]
            \o Positions(k + 1)

Followers(key) ==
    LET At(p) == <<Tok(p[1])[p[2]], Tok(p[1])[p[2] + 1]>> = key
        hits == SelectSeq(Positions(1), At)
    IN  [n \in 1..Len(hits) |-> Tok(hits[n][1])[hits[n][2] + 2]]

\* C4: the successor sequence of every key is non-empty and lists, in corpus
\* order and one entry per occurrence, the tokens that follow the pair.
C4_Successors ==
    Built =>
        \A key \in DOMAIN distribution :
            /\ distribution[key] # <<>>
            /\ distribution[key] = Followers(key)

C4_Witness ==
    /\ pc = "done"
    /\ \E key \in DOMAIN distribution :
         /\ Len(distribution[key]) = 2
         /\ distribution[key][1] # distribution[key][2]
    /\ \E key \in DOMAIN distribution :
         /\ Len(distribution[key]) = 2
         /\ distribution[key][1] = distribution[key][2]

\* C5: in an iteration whose pending pair is a key, the sampled successor is
\* one recorded for that very pair, and the pending pair becomes
\* (old second token, sampled successor).
C5_Sampled ==
    [][ (pc = "loop" /\ i' = i + 1 /\ word1' # None) =>
          LET key == <<Last(song'), word1'>>
          IN  /\ song' = Append(song, key[1])
              /\ word1 # None => key = <<word1, word2>>
              /\ key \in DOMAIN distribution
              /\ word2' \in Range(distribution[key])
              /\ trace'[i'].pair = key
              /\ trace'[i'].next = word2' ]_vars

C5_Witness ==
    /\ pc = "done"
    /\ \E k \in 1..Len(trace) :
         /\ ~trace[k].dead
         /\ ~trace[k].restart
         /\ Cardinality(Range(distribution[trace[k].pair])) = 2
         /\ \E other \in DOMAIN distribution :
              Range(distribution[other]) # Range(distribution[trace[k].pair])

\* C6, as stated: decoding the tokens of a text gives back the lines of the
\* text.
NoSpaceOnlyLine(text) ==
    \A k \in 1..Len(split(text, NL)) :
        LET line == split(text, NL)[k] IN ~(line # <<>> /\ Range(line) = {SP})

NoSentinel(text) == Last(split(text, NL)) # SENTINEL

RoundTripInput(text) == NoSpaceOnlyLine(text) /\ NoSentinel(text)

C6_RoundTrip ==
    (pc = "done" /\ tracks # <<>> /\ RoundTripInput(tracks[1])) =>
        /\ result.kind = "ok"
        /\ split(result.text, NL) = split(tracks[1], NL)

\* C6, amended: decoding the tokens of a text gives back the lines of the
\* text after its doubled line breaks have been collapsed.
C6_RoundTripCollapsed ==
    (pc = "done" /\ tracks # <<>> /\ RoundTripInput(tracks[1])) =>
        /\ result.kind = "ok"
        /\ split(result.text, NL) = split(replace(tracks[1], <<NL, NL>>, <<NL>>), NL)

C6_Witness ==
    /\ pc = "done"
    /\ tracks # <<>>
    /\ RoundTripInput(tracks[1])
    /\ tracks[1] = <<"a", SP, "a", NL, NL, "a">>
    /\ song = << <<"a">>, <<"a", NL>>, <<"a">> >>
    /\ result.text = <<"a", SP, "a", NL, "a">>

C7_DeadEndStep ==
    (pc = "loop" /\ i' = i + 1 /\ trace'[i'].dead) =>
        /\ word1 # None
        /\ song' = song \o <<word1, word2>>
        /\ word1' = None
        /\ word2' = word2

C7_DuplicateTail ==
    /\ (Flushed /\ trace # <<>> /\ Last(trace).dead) =>
          /\ Len(song) >= 2
          /\ song[Len(song)] = song[Len(song) - 1]
          /\ song[Len(song)] = Last(trace).pair[2]
    /\ (Flushed /\ corpus = ScenarioB /\ word_count = 3
          /\ trace[1].pair = <<A, B>> /\ trace[1].next = C) =>
          /\ distribution = (<<A, B>> :> <<C, D>>)
          /\ song = <<A, B, C, C>>
          /\ DeadEnds = 1

\* C7: a dead end appends the pending second token, clears only word1 and
\* keeps word2; when the last iteration is a dead end the final flush emits
\* that token again, so the output ends with two equal tokens (Scenario B
\* gives [a, b, c, c]).
C7_StaleToken == []C7_DuplicateTail /\ [][C7_DeadEndStep]_vars

C7_Witness ==
    /\ pc = "done"
    /\ corpus = ScenarioB
    /\ word_count = 3
    /\ song = <<A, B, C, C>>
    /\ Last(trace).dead

\* C8: on a walk without dead end and word_count = n >= 2 the output is
\* x1 .. x(n-1), x(n+1), where (x1, x2) is the start key and every x(k+2)
\* is a recorded successor of (x(k), x(k+1)); Scenario A with start (a, b)
\* and word_count = 4 gives [a, b, c, e].
C8_Walk ==
    /\ (Flushed /\ word_pairs # {} /\ word_count >= 2 /\ DeadEnds = 0) =>
          /\ Len(trace) = word_count - 1
          /\ trace[1].pair \in word_pairs
          /\ \A k \in 1..Len(trace) :
                /\ trace[k].pair \in DOMAIN distribution
                /\ trace[k].next \in Range(distribution[trace[k].pair])
                /\ k > 1 => trace[k].pair = <<trace[k - 1].pair[2], trace[k - 1].next>>
          /\ song = [k \in 1..word_count |->
                        IF k < word_count THEN trace[k].pair[1]
                        ELSE trace[word_count - 1].next]
          /\ \A k \in 1..(Len(song) - 3) :
                /\ <<song[k], song[k + 1]>> \in DOMAIN distribution
                /\ song[k + 2] \in Range(distribution[<<song[k], song[k + 1]>>])
    /\ (Flushed /\ corpus = ScenarioA /\ word_count = 4 /\ trace[1].pair = <<A, B>>) =>
          /\ distribution = (<<A, B>> :> <<C>>) @@ (<<B, C>> :> <<D>>) @@ (<<C, D>> :> <<E>>)
          /\ song = <<A, B, C, E>>
          /\ DeadEnds = 0

C8_Witness ==
    /\ pc = "done"
    /\ corpus = ScenarioA
    /\ word_count = 4
    /\ song = <<A, B, C, E>>
    /\ result.text = <<"a", SP, "b", SP, "c", SP, "e">>

\* C9: a (re)start picks a key, so the iteration that restarts is never a
\* dead end: the first iteration is none, no two consecutive iterations are
\* both dead ends, and with a non-empty Distribution there are at most
\* (word_count - 1) \div 2 dead ends and word_count + (word_count - 1) \div 2
\* output tokens.
C9_Restart ==
    (Built /\ word_pairs # {}) =>
        /\ \A k \in 1..Len(trace) :
              /\ trace[k].restart <=> (k = 1 \/ trace[k - 1].dead)
              /\ trace[k].restart => (trace[k].pair \in DOMAIN distribution /\ ~trace[k].dead)
              /\ k > 1 => ~(trace[k - 1].dead /\ trace[k].dead)
        /\ DeadEnds <= (word_count - 1) \div 2
        /\ Len(song) <= word_count + (word_count - 1) \div 2

C9_Witness ==
    /\ pc = "done"
    /\ word_count = 5
    /\ DeadEnds = 2
    /\ Len(song) = 7
    /\ trace[3].restart

\* C10: with a non-empty Distribution and word_count >= 1 generate_song
\* completes normally and every output token, the flushed one included, is
\* a token of the corpus; None is never emitted.
C10_Completes ==
    (Built /\ word_pairs # {} /\ word_count >= 1) =>
        /\ None \notin Range(song)
        /\ Range(song) \subseteq CorpusTokens
        /\ pc = "done" => result.kind = "ok"

====
